---- MODULE Spec2Model ----
(***************************************************************************)
(* Model of lib/failure-detector.js (swim-js): the SWIM failure detector.  *)
(* One detector instance, the Node.js runtime facilities it uses           *)
(* (setTimeout / setInterval / setImmediate / process.nextTick, the        *)
(* listener list of swim.net) and its two collaborators (membership, net). *)
(***************************************************************************)
EXTENDS Integers, Sequences, FiniteSets, Bags, TLC

\* ------------------------------------------------------------- bounds ----
MaxSeq == 3          \* sequence numbers allocated in one run
MaxStarts == 2       \* start() calls in one run
OptsInterval == 4        \* opts.interval of the modelled instance
OptsPingTimeout == 1     \* opts.pingTimeout of the modelled instance
OptsPingReqTimeout == 2  \* opts.pingReqTimeout of the modelled instance
MaxSeqRounds == 4    \* sequence numbers allocated in one run of RoundsSpec

\* ---------------------------------------------------------- constants ----
DefaultInterval == 20
DefaultPingTimeout == 4
DefaultPingReqTimeout == 12
DefaultPingReqGroupSize == 3

Members == {"m1", "m2"}        \* hosts of the peers known to the cluster
Local == "local"               \* opts.debugIdentifier, the local identity
Absent == "absent"             \* undefined (no member, no field)
Requesters == {"m1"}           \* hosts inbound Ping / PingReq come from
ReqSeqs == {7}                 \* sequences carried by inbound PingReq / Ping
OptsGroupSizes == {0, 1}       \* opts.pingReqGroupSize; 0 is "not given"

Undefined == <<"undefined", 0>> \* a timer handle that is undefined

\* opts.x || Default.x
Opt(v, d) == IF v = 0 THEN d ELSE v

interval == Opt(OptsInterval, DefaultInterval)
pingTimeout == Opt(OptsPingTimeout, DefaultPingTimeout)
pingReqTimeout == Opt(OptsPingReqTimeout, DefaultPingReqTimeout)

VARIABLES
    \* fields of the FailureDetector object
    seq, tickHandle, seqToTimeout, seqToCallback, pingReqGroupSize,
    \* the runtime: armed timeouts, armed intervals, pending setImmediate
    \* calls, the process.nextTick queue, registrations on swim.net
    timers, intervals, immediates, nextTickQueue, listeners,
    \* collaborators: the messages the step just taken gave to
    \* net.sendMessage, the Acks forwarded so far by completion callbacks,
    \* the Suspect events emitted so far
    sent, relayed, emitted,
    \* history of the run
    lifecycle, starts, txn, rounds, pingReqLog, acked, heard,
    ackedInTime, timedOut, staleRan, invoked

vars == <<seq, tickHandle, seqToTimeout, seqToCallback, pingReqGroupSize,
          timers, intervals, immediates, nextTickQueue, listeners,
          sent, relayed, emitted,
          lifecycle, starts, txn, rounds, pingReqLog, acked, heard,
          ackedInTime, timedOut, staleRan, invoked>>

\* The whole state as one record, so that the methods are operators on it.
State ==
    [seq |-> seq, tickHandle |-> tickHandle, seqToTimeout |-> seqToTimeout,
     seqToCallback |-> seqToCallback, pingReqGroupSize |-> pingReqGroupSize,
     timers |-> timers, intervals |-> intervals, immediates |-> immediates,
     nextTickQueue |-> nextTickQueue, listeners |-> listeners,
     sent |-> sent, relayed |-> relayed, emitted |-> emitted,
     lifecycle |-> lifecycle, starts |-> starts,
     txn |-> txn, rounds |-> rounds, pingReqLog |-> pingReqLog,
     acked |-> acked, heard |-> heard, ackedInTime |-> ackedInTime, timedOut |-> timedOut,
     staleRan |-> staleRan, invoked |-> invoked]

Install(st) ==
    /\ seq' = st.seq
    /\ tickHandle' = st.tickHandle
    /\ seqToTimeout' = st.seqToTimeout
    /\ seqToCallback' = st.seqToCallback
    /\ pingReqGroupSize' = st.pingReqGroupSize
    /\ timers' = st.timers
    /\ intervals' = st.intervals
    /\ immediates' = st.immediates
    /\ nextTickQueue' = st.nextTickQueue
    /\ listeners' = st.listeners
    /\ sent' = st.sent
    /\ relayed' = st.relayed
    /\ emitted' = st.emitted
    /\ lifecycle' = st.lifecycle
    /\ starts' = st.starts
    /\ txn' = st.txn
    /\ rounds' = st.rounds
    /\ pingReqLog' = st.pingReqLog
    /\ acked' = st.acked
    /\ heard' = st.heard
    /\ ackedInTime' = st.ackedInTime
    /\ timedOut' = st.timedOut
    /\ staleRan' = st.staleRan
    /\ invoked' = st.invoked

\* ------------------------------------------------------------ helpers ----
Put(f, k, v) == [x \in DOMAIN f \cup {k} |-> IF x = k THEN v ELSE f[x]]
Drop(f, k) == [x \in DOMAIN f \ {k} |-> f[x]]
Min(a, b) == IF a < b THEN a ELSE b

\* A message handed to swim.net.sendMessage(message, to).  via is history:
\* the local sequence whose completion callback sent it (-1: none).
Msg(type, s, host, destination, to, via) ==
    [type |-> type, seq |-> s, host |-> host, destination |-> destination,
     to |-> to, via |-> via]

sendMessage(st, m) ==
    [st EXCEPT !.sent = @ (+) SetToBag({m}),
               !.relayed = IF m.via = -1 THEN @ ELSE @ (+) SetToBag({m})]

\* setTimeout(handler, delay): the handler is named by the handle's kind,
\* member is the variable its closure captured.
setTimeout(st, handle, delay, member) ==
    [st EXCEPT !.timers = @ \cup {[id |-> handle, left |-> delay,
                                   member |-> member, stale |-> FALSE]}]

\* variant with a slip: the timer is not cancelled
clearTimeout_Forgets(st, handle) == st

\* clearTimeout(handle): a handle that is undefined, fired or already
\* cleared is ignored.
clearTimeout(st, handle) ==
    [st EXCEPT !.timers = {t \in @ : t.id # handle}]

\* The delay a timer of this kind was armed with.
Delay(kind) == IF kind \in {"ping", "behalf"} THEN pingTimeout ELSE pingReqTimeout

\* Position of a timer in its list: timers armed with the same delay run in
\* the order they were armed.  The suspicion timer of round r is armed just
\* before the relay leg that takes sequence r.
Order(id) == IF id[1] = "suspect" THEN 2 * id[2] ELSE 2 * id[2] + 1

\* membership.random(n) when the membership holds the hosts S: n distinct
\* members, or all of them when there are fewer, in any order.
RECURSIVE Arrangements(_, _)
Arrangements(S, n) ==
    IF n = 0 \/ S = {} THEN {<< >>}
    ELSE UNION {{<<m>> \o rest : rest \in Arrangements(S \ {m}, n - 1)} : m \in S}

random(S, n) == Arrangements(S, Min(n, Cardinality(S)))

\* membership.next(): a member, or undefined
next == Members \cup {Absent}

\* variant with a slip: the counter is not advanced
NextSeq_Stuck(s) == s

\* self.seq += 1
NextSeq(s) == s + 1

\* ------------------------------------------------------------ clearSeq ---
\* variant with a slip: the callback is left in seqToCallback
clearSeq_KeepCallback(st, s) ==
    LET handle == IF s \in DOMAIN st.seqToTimeout THEN st.seqToTimeout[s]
                  ELSE Undefined
        st1 == clearTimeout(st, handle)
    IN  [st1 EXCEPT !.seqToTimeout = Drop(@, s)]

clearSeq(st, s) ==
    LET handle == IF s \in DOMAIN st.seqToTimeout THEN st.seqToTimeout[s]
                  ELSE Undefined
        st1 == clearTimeout(st, handle)
    IN  [st1 EXCEPT !.seqToCallback = Drop(@, s),
                    !.seqToTimeout = Drop(@, s)]

\* ---------------------------------------------------------- pingMember ---
\* variant with a slip: the test of member is missing
pingMember_NoGuard(st, member) ==
    LET s == st.seq
        st1 == [st EXCEPT !.seq = NextSeq(s),
                          !.seqToTimeout = Put(@, s, <<"ping", s>>),
                          !.txn = Put(@, s, [kind |-> "ping", member |-> member,
                                             round |-> -1, reqSeq |-> -1,
                                             host |-> Absent])]
        st2 == setTimeout(st1, <<"ping", s>>, pingTimeout, member)
    IN  sendMessage(st2, Msg("Ping", s, Local, Absent, member, -1))

pingMember(st, member) ==
    IF member = Absent THEN st
    ELSE LET s == st.seq
             st1 == [st EXCEPT !.seq = NextSeq(s),
                               !.seqToTimeout = Put(@, s, <<"ping", s>>),
                               !.txn = Put(@, s, [kind |-> "ping", member |-> member,
                                                  round |-> -1, reqSeq |-> -1,
                                                  host |-> Absent])]
             st2 == setTimeout(st1, <<"ping", s>>, pingTimeout, member)
         IN  sendMessage(st2, Msg("Ping", s, Local, Absent, member, -1))

\* ping(): member is what membership.next() returned
ping(st, member) == pingMember(st, member)

\* ------------------------------------------------ pingReqThroughMember ---
\* callback is pingReqThroughMemberCallback, named by the suspicion timer
\* handle its closure captured.
pingReqThroughMember(st, member, relayMember, callback) ==
    LET s == st.seq
        st1 == [st EXCEPT !.seq = NextSeq(s),
                          !.seqToTimeout = Put(@, s, <<"leg", s>>),
                          !.seqToCallback =
                              Put(@, s, [name |-> "pingReqAckReceiveCallback",
                                         seq |-> s, timeout |-> callback,
                                         reqSeq |-> -1, host |-> Absent]),
                          !.txn = Put(@, s, [kind |-> "leg", member |-> member,
                                             round |-> callback[2], reqSeq |-> -1,
                                             host |-> relayMember])]
        st2 == setTimeout(st1, <<"leg", s>>, pingReqTimeout, Absent)
    IN  sendMessage(st2, Msg("PingReq", s, Local, member, relayMember, -1))

\* variant with a slip: only the first relay is asked
pingThrough_FirstOnly(st, member, relayMembers, callback) ==
    IF relayMembers = << >> THEN st
    ELSE pingReqThroughMember(st, member, Head(relayMembers), callback)

\* relayMembers.forEach(function pingThrough(relayMember) ...)
RECURSIVE pingThrough(_, _, _, _)
pingThrough(st, member, relayMembers, callback) ==
    IF relayMembers = << >> THEN st
    ELSE pingThrough(pingReqThroughMember(st, member, Head(relayMembers), callback),
                     member, Tail(relayMembers), callback)

\* -------------------------------------------------------------- pingReq ---
\* variant with a slip: the suspicion timer is armed before the relays are counted
pingReq_ArmFirst(st, member, relayMembers) ==
    LET st0 == [st EXCEPT !.pingReqLog =
                    Append(@, [member |-> member, relays |-> relayMembers,
                               first |-> st.seq, available |-> {}])]
        timeout == <<"suspect", st.seq>>
        st1 == setTimeout(st0, timeout, pingReqTimeout, member)
    IN  IF Len(relayMembers) = 0 THEN st1
        ELSE pingThrough([st1 EXCEPT !.rounds =
                              Put(@, st.seq, [member |-> member,
                                              relays |-> relayMembers])],
                         member, relayMembers, timeout)

\* variant with a slip: the suspicion timer captures the first relay, not member
pingReq_SuspectsRelay(st, member, relayMembers) ==
    LET st0 == [st EXCEPT !.pingReqLog =
                    Append(@, [member |-> member, relays |-> relayMembers,
                               first |-> st.seq, available |-> {}])]
    IN  IF Len(relayMembers) = 0 THEN st0
        ELSE LET timeout == <<"suspect", st.seq>>
                 st1 == setTimeout(st0, timeout, pingReqTimeout, Head(relayMembers))
                 st2 == [st1 EXCEPT !.rounds =
                             Put(@, st.seq, [member |-> member,
                                             relays |-> relayMembers])]
             IN  pingThrough(st2, member, relayMembers, timeout)

\* relayMembers is what membership.random(pingReqGroupSize) returned.
pingReq(st, member, relayMembers) ==
    LET st0 == [st EXCEPT !.pingReqLog =
                    Append(@, [member |-> member, relays |-> relayMembers,
                               first |-> st.seq, available |-> {}])]
    IN  IF Len(relayMembers) = 0 THEN st0
        ELSE LET timeout == <<"suspect", st.seq>>
                 st1 == setTimeout(st0, timeout, pingReqTimeout, member)
                 st2 == [st1 EXCEPT !.rounds =
                             Put(@, st.seq, [member |-> member,
                                             relays |-> relayMembers])]
             IN  pingThrough(st2, member, relayMembers, timeout)

\* --------------------------------------------------------- timer handlers ---
\* variant with a slip: the direct probe's timeout clears the entry and does not escalate
receiveTimeout_NoEscalation(st, s, member, relayMembers) == clearSeq(st, s)

\* receiveTimeout of pingMember
receiveTimeout(st, s, member, relayMembers) ==
    pingReq(clearSeq(st, s), member, relayMembers)

\* variant with a slip: the leg's timeout leaves the entry in the tables
legReceiveTimeout_Keep(st, s) == st

\* receiveTimeout of pingReqThroughMember
legReceiveTimeout(st, s) == clearSeq(st, s)

\* variant with a slip: the on-behalf probe's timeout leaves the entry behind
behalfReceiveTimeout_Keep(st, s) == st

\* receiveTimeout of onPingReq
behalfReceiveTimeout(st, s) == clearSeq(st, s)

\* variant with a slip: the suspicion timer's handler emits nothing
suspectTimeout_Silent(st, member, round) == st

\* pingReqTimeout of pingReq: self.emit(Suspect, member); round is history
suspectTimeout(st, member, round) ==
    [st EXCEPT !.emitted = @ (+) SetToBag({[member |-> member, round |-> round]})]

\* -------------------------------------------------------- inbound handlers ---
\* variant with a slip: the Ack carries the local counter, not data.seq
onPing_OwnSeq(st, data, host) ==
    sendMessage(st, Msg("Ack", st.seq, Local, Absent, host, -1))

onPing(st, data, host) ==
    sendMessage(st, Msg("Ack", data.seq, Local, Absent, host, -1))

onPingReq(st, data, host) ==
    LET s == st.seq
        st1 == [st EXCEPT !.seq = NextSeq(s),
                          !.seqToTimeout = Put(@, s, <<"behalf", s>>),
                          !.seqToCallback =
                              Put(@, s, [name |-> "pingAckReceiveCallback",
                                         seq |-> s, timeout |-> Undefined,
                                         reqSeq |-> data.seq, host |-> host]),
                          !.txn = Put(@, s, [kind |-> "behalf",
                                             member |-> data.destination,
                                             round |-> -1, reqSeq |-> data.seq,
                                             host |-> host])]
        st2 == setTimeout(st1, <<"behalf", s>>, pingTimeout, Absent)
    IN  sendMessage(st2, Msg("Ping", s, data.destination, Absent,
                             data.destination, -1))

\* variant with a slip: the entry is not cleared after the callback is deferred
onAck_NoClear(st, data) ==
    LET s == data.seq
        has == s \in DOMAIN st.seqToCallback
        callback == st.seqToCallback[s]
    IN  [st EXCEPT !.nextTickQueue =
                       IF has THEN Append(@, [cb |-> callback, stale |-> FALSE])
                       ELSE @]

onAck(st, data) ==
    LET s == data.seq
        has == s \in DOMAIN st.seqToCallback
        callback == st.seqToCallback[s]
        pending == s \in DOMAIN st.seqToTimeout
        inTime == /\ has
                  /\ callback.name = "pingReqAckReceiveCallback"
                  /\ \E t \in st.timers : t.id = callback.timeout
        st1 == [st EXCEPT !.nextTickQueue =
                              IF has THEN Append(@, [cb |-> callback, stale |-> FALSE])
                              ELSE @,
                          !.acked = IF pending THEN @ \cup {s} ELSE @,
                          !.heard = IF s \in DOMAIN st.txn /\ s \notin st.timedOut
                                    THEN @ \cup {s} ELSE @,
                          !.ackedInTime =
                              IF inTime THEN @ \cup {callback.timeout[2]} ELSE @]
    IN  clearSeq(st1, s)

\* -------------------------------------------------- completion callbacks ---
\* variant with a slip: the success callback forgets clearTimeout(timeout)
pingReqThroughMemberCallback_NoClear(st, timeout) == st

\* variant with a slip: the success callback clears every suspicion timer
pingReqThroughMemberCallback_ClearsAll(st, timeout) ==
    [st EXCEPT !.timers = {t \in @ : t.id[1] # "suspect"}]

pingReqThroughMemberCallback(st, timeout) == clearTimeout(st, timeout)

\* variant with a slip: the round's callback is not applied
pingReqAckReceiveCallback_NoApply(st, cb) == clearSeq(st, cb.seq)

pingReqAckReceiveCallback(st, cb) ==
    pingReqThroughMemberCallback(clearSeq(st, cb.seq), cb.timeout)

\* variant with a slip: the forwarded Ack carries the callback's own sequence
pingAckReceiveCallback_OwnSeq(st, cb) ==
    sendMessage(clearSeq(st, cb.seq),
                Msg("Ack", cb.seq, Absent, Absent, cb.host, cb.seq))

pingAckReceiveCallback(st, cb) ==
    sendMessage(clearSeq(st, cb.seq),
                Msg("Ack", cb.reqSeq, Absent, Absent, cb.host, cb.seq))

RunCallback(st, cb) ==
    IF cb.name = "pingReqAckReceiveCallback" THEN pingReqAckReceiveCallback(st, cb)
    ELSE pingAckReceiveCallback(st, cb)

\* --------------------------------------------------------- start / stop ---
tick(st) ==
    LET handle == st.starts + 1
    IN  [st EXCEPT !.immediates = @ + 1,
                   !.tickHandle = handle,
                   !.intervals = Put(@, handle, interval),
                   !.starts = handle]

start(st) == tick([st EXCEPT !.listeners = @ + 1])

stop(st) ==
    LET \* clearInterval(self.tickHandle); self.tickHandle = undefined
        st1 == [st EXCEPT !.intervals = Drop(@, st.tickHandle),
                          !.tickHandle = 0]
        \* removeListener takes away one registration, if there is one
        st2 == [st1 EXCEPT !.listeners = IF @ > 0 THEN @ - 1 ELSE 0]
        handles == {st.seqToTimeout[s] : s \in DOMAIN st.seqToTimeout}
    IN  [st2 EXCEPT !.timers = {t \in @ : t.id \notin handles},
                    !.seqToTimeout = << >>,
                    !.seqToCallback = << >>]

\* ------------------------------------------------------------- runtime ---
\* net emits the event to every registration of the listener, one call each.
Handle(st, type, data, host) ==
    CASE type = "Ping" -> onPing(st, data, host)
      [] type = "PingReq" -> onPingReq(st, data, host)
      [] OTHER -> onAck(st, data)

RECURSIVE Emit(_, _, _, _, _)
Emit(st, type, data, host, n) ==
    IF n = 0 THEN st
    ELSE Emit(Handle(st, type, data, host), type, data, host, n - 1)

\* Largest number of relay legs one escalation can take.
MaxRelays(st) == Min(st.pingReqGroupSize, Cardinality(Members))

\* Sequences still to be taken by the escalation of the pending direct probes.
Reserved(st) == MaxRelays(st) * Cardinality({t \in st.timers : t.id[1] = "ping"})

\* The run is cut where an allocation would pass MaxSeq.
RoomForPing(st) == st.seq + 1 + MaxRelays(st) + Reserved(st) <= MaxSeq
RoomForPingReq(st) == st.seq + st.listeners + Reserved(st) <= MaxSeq

Targets(st) == IF RoomForPing(st) THEN next ELSE {Absent}

\* The membership random() drew from, kept with the escalation it served.
Noted(st, available) ==
    IF st.pingReqLog = << >> THEN st
    ELSE [st EXCEPT !.pingReqLog[Len(st.pingReqLog)].available = available]

\* What stop() left behind: timers and deferred callbacks that outlive it.
MarkStale(st) ==
    [st EXCEPT !.timers = {[t EXCEPT !.stale = TRUE] : t \in @},
               !.nextTickQueue = [i \in DOMAIN @ |-> [@[i] EXCEPT !.stale = TRUE]],
               !.lifecycle = "stopped"]

Quiet == nextTickQueue = << >>

\* The state a step starts from: nothing given to net.sendMessage yet.
Begin == [State EXCEPT !.sent = EmptyBag]

\* -------------------------------------------------------------- actions ---
Init ==
    /\ seq = 0
    /\ tickHandle = 0
    /\ seqToTimeout = << >>
    /\ seqToCallback = << >>
    /\ pingReqGroupSize \in {Opt(g, DefaultPingReqGroupSize) : g \in OptsGroupSizes}
    /\ timers = {}
    /\ intervals = << >>
    /\ immediates = 0
    /\ nextTickQueue = << >>
    /\ listeners = 0
    /\ sent = EmptyBag
    /\ relayed = EmptyBag
    /\ emitted = EmptyBag
    /\ lifecycle = "new"
    /\ starts = 0
    /\ txn = << >>
    /\ rounds = << >>
    /\ pingReqLog = << >>
    /\ acked = {}
    /\ heard = {}
    /\ ackedInTime = {}
    /\ timedOut = {}
    /\ staleRan = {}
    /\ invoked = EmptyBag

Start ==
    /\ starts < MaxStarts
    /\ Install([start(Begin) EXCEPT !.lifecycle = "started"])

Stop ==
    /\ lifecycle # "new"
    /\ Install(MarkStale(stop(Begin)))

\* the callback given to setImmediate by tick()
RunImmediate ==
    /\ Quiet
    /\ immediates > 0
    /\ \E member \in Targets(State) :
          Install(ping([Begin EXCEPT !.immediates = @ - 1], member))

\* the callback given to setInterval by tick()
FireInterval ==
    /\ Quiet
    /\ \E h \in DOMAIN intervals :
          /\ intervals[h] = 0
          /\ \E member \in Targets(State) :
                Install(ping([Begin EXCEPT !.intervals[h] = interval], member))

\* a timeout may run once it is due, after the due ones of its own list
Due(t) ==
    /\ t.left = 0
    /\ \A u \in timers :
          (u.left = 0 /\ Delay(u.id[1]) = Delay(t.id[1])) => Order(u.id) >= Order(t.id)

Fired(st, t) ==
    [st EXCEPT !.timers = @ \ {t},
               !.timedOut = IF t.id[1] = "suspect" THEN @ ELSE @ \cup {t.id[2]},
               !.staleRan = IF t.stale THEN @ \cup {t.id} ELSE @]

FirePingTimeout ==
    /\ Quiet
    /\ \E t \in timers :
          /\ t.id[1] = "ping"
          /\ Due(t)
          /\ \E available \in SUBSET Members :
             \E relayMembers \in random(available, pingReqGroupSize) :
                Install(Noted(receiveTimeout(Fired(Begin, t), t.id[2], t.member,
                                             relayMembers), available))

FireLegTimeout ==
    /\ Quiet
    /\ \E t \in timers :
          /\ t.id[1] = "leg"
          /\ Due(t)
          /\ Install(legReceiveTimeout(Fired(Begin, t), t.id[2]))

FireBehalfTimeout ==
    /\ Quiet
    /\ \E t \in timers :
          /\ t.id[1] = "behalf"
          /\ Due(t)
          /\ Install(behalfReceiveTimeout(Fired(Begin, t), t.id[2]))

FireSuspectTimeout ==
    /\ Quiet
    /\ \E t \in timers :
          /\ t.id[1] = "suspect"
          /\ Due(t)
          /\ Install(suspectTimeout(Fired(Begin, t), t.member, t.id[2]))

\* the first callback of the process.nextTick queue
RunNextTick ==
    /\ nextTickQueue # << >>
    /\ LET e == Head(nextTickQueue)
           st0 == [Begin EXCEPT !.nextTickQueue = Tail(@),
                                !.invoked = @ (+) SetToBag({e.cb.seq}),
                                !.staleRan = IF e.stale THEN @ \cup {<<"callback", e.cb.seq>>}
                                             ELSE @]
       IN  Install(RunCallback(st0, e.cb))

DeliverPing ==
    /\ listeners > 0
    /\ \E s \in ReqSeqs, host \in Requesters :
          Install(Emit(Begin, "Ping",
                       [seq |-> s, host |-> host], host, listeners))

DeliverPingReq ==
    /\ listeners > 0
    /\ RoomForPingReq(State)
    /\ \E s \in ReqSeqs, host \in Requesters, destination \in Members :
          /\ host # destination
          /\ Install(Emit(Begin, "PingReq",
                       [seq |-> s, host |-> host, destination |-> destination],
                       host, listeners))

DeliverAck ==
    /\ listeners > 0
    /\ \E s \in 0..seq :
          Install(Emit(Begin, "Ack", [seq |-> s, host |-> Absent], Absent, listeners))

\* one unit of time passes: nothing is due and nothing is waiting to run
Tick ==
    /\ Quiet
    /\ immediates = 0
    /\ timers # {} \/ DOMAIN intervals # {}
    /\ \A t \in timers : t.left > 0
    /\ \A h \in DOMAIN intervals : intervals[h] > 0
    /\ timers' = {[t EXCEPT !.left = @ - 1] : t \in timers}
    /\ intervals' = [h \in DOMAIN intervals |-> intervals[h] - 1]
    /\ sent' = EmptyBag
    /\ UNCHANGED <<seq, tickHandle, seqToTimeout, seqToCallback, pingReqGroupSize,
                   immediates, nextTickQueue, listeners,
                   relayed, emitted, lifecycle, starts, txn, rounds,
                   pingReqLog, acked, heard, ackedInTime, timedOut, staleRan,
                   invoked>>

Next ==
    \/ Start
    \/ Stop
    \/ RunImmediate
    \/ FireInterval
    \/ FirePingTimeout
    \/ FireLegTimeout
    \/ FireBehalfTimeout
    \/ FireSuspectTimeout
    \/ RunNextTick
    \/ DeliverPing
    \/ DeliverPingReq
    \/ DeliverAck
    \/ Tick

Spec == Init /\ [][Next]_vars

\* The runtime runs what is due: timers, intervals, immediates and the
\* nextTick queue are not left waiting for ever, and time passes.
FairSpec ==
    /\ Spec
    /\ WF_vars(Tick)
    /\ WF_vars(RunNextTick)
    /\ WF_vars(RunImmediate)
    /\ WF_vars(FireInterval)
    /\ WF_vars(FirePingTimeout)
    /\ WF_vars(FireLegTimeout)
    /\ WF_vars(FireBehalfTimeout)
    /\ WF_vars(FireSuspectTimeout)

\* ------------------------------------------- a detector started once ---
\* start() is called on a detector that was never started.
StartOnce ==
    /\ starts = 0
    /\ Start

NextOnce ==
    \/ StartOnce
    \/ Stop
    \/ RunImmediate
    \/ FireInterval
    \/ FirePingTimeout
    \/ FireLegTimeout
    \/ FireBehalfTimeout
    \/ FireSuspectTimeout
    \/ RunNextTick
    \/ DeliverPing
    \/ DeliverPingReq
    \/ DeliverAck
    \/ Tick

\* One turn of the event loop: it runs something that is due, or time passes.
Run ==
    \/ Tick
    \/ RunNextTick
    \/ RunImmediate
    \/ FireInterval
    \/ FirePingTimeout
    \/ FireLegTimeout
    \/ FireBehalfTimeout
    \/ FireSuspectTimeout

\* The event loop does not stall: while it has something to run or a timer
\* to wait for, it takes a turn.
LiveSpec == Init /\ [][NextOnce]_vars /\ WF_vars(Run)

\* ------------------------------------------------ overlapping rounds ---
\* The scheduler and the relay workflow on their own, with room for two
\* direct probes and the round of each; no Ping or PingReq comes in.
RoomForRounds(st) ==
    st.seq + 1 + MaxRelays(st) + Reserved(st) <= MaxSeqRounds

TargetsOfRounds(st) == IF RoomForRounds(st) THEN next ELSE {Absent}

\* the callback given to setImmediate by tick()
RunImmediateOfRounds ==
    /\ Quiet
    /\ immediates > 0
    /\ \E member \in TargetsOfRounds(State) :
          Install(ping([Begin EXCEPT !.immediates = @ - 1], member))

\* the callback given to setInterval by tick()
FireIntervalOfRounds ==
    /\ Quiet
    /\ \E h \in DOMAIN intervals :
          /\ intervals[h] = 0
          /\ \E member \in TargetsOfRounds(State) :
                Install(ping([Begin EXCEPT !.intervals[h] = interval], member))

NextRounds ==
    \/ Start
    \/ Stop
    \/ RunImmediateOfRounds
    \/ FireIntervalOfRounds
    \/ FirePingTimeout
    \/ FireLegTimeout
    \/ FireSuspectTimeout
    \/ RunNextTick
    \/ DeliverAck
    \/ Tick

RoundsSpec == Init /\ [][NextRounds]_vars

\* ============================================================== claims ===
Pending == DOMAIN seqToTimeout

\* Suspect events emitted for round r, and those emitted for it with member m
SuspectsOf(r, m) == CopiesIn([member |-> m, round |-> r], emitted)
Suspects(r) ==
    LET es == {e \in BagToSet(emitted) : e.round = r}
    IN  IF es = {} THEN 0
        ELSE IF Cardinality(es) = 1 THEN CopiesIn(CHOOSE e \in es : TRUE, emitted)
        ELSE 2

LegsOf(r) == {s \in DOMAIN txn : txn[s].kind = "leg" /\ txn[s].round = r}

\* C1: a round one of whose relay legs was acknowledged while the leg was
\* pending and the round's suspicion timer had not fired never emits Suspect,
\* whatever its other legs do.
C1_AckedRoundNeverSuspected ==
    \A r \in ackedInTime : Suspects(r) = 0

\* a round of two legs: one acknowledged in time, the other timed out, the
\* deferred success callback already run
C1_Witness ==
    \E r \in ackedInTime :
        /\ Cardinality(LegsOf(r)) = 2
        /\ \E s \in LegsOf(r) : s \in timedOut
        /\ \E s \in LegsOf(r) : s \in acked
        /\ nextTickQueue = << >>
        /\ LegsOf(r) \cap Pending = {}

\* the suspicion timer of round r is armed
Armed(r) == \E t \in timers : t.id = <<"suspect", r>>

\* C2: a round no leg of which is acknowledged in time emits Suspect(member)
\* exactly once: its suspicion timer stays armed until it fires, the firing
\* emits Suspect for the round's member, and nothing emits it a second time.
C2_UnackedRoundSuspectedOnce ==
    \A r \in DOMAIN rounds :
        /\ Suspects(r) <= 1
        /\ Suspects(r) = SuspectsOf(r, rounds[r].member)
        /\ Armed(r) => Suspects(r) = 0
        /\ (r \notin ackedInTime /\ ~Armed(r)) => Suspects(r) = 1

\* every round is acknowledged in time or suspected
Settled == \A r \in DOMAIN rounds : r \in ackedInTime \/ Suspects(r) = 1

\* C2, the liveness half under FairSpec: every round is settled in the end,
\* whatever stop(), start() and the acks do.
C2_EventuallySettled == []<>Settled

\* a round whose two legs timed out unacknowledged and that was suspected once
C2_Witness ==
    \E r \in DOMAIN rounds :
        /\ r \notin ackedInTime
        /\ Cardinality(LegsOf(r)) = 2
        /\ LegsOf(r) \subseteq timedOut
        /\ SuspectsOf(r, rounds[r].member) = 1

\* C3: once stop() has returned and until start() is called again, no step
\* gives a message to net.sendMessage.
C3_NoSendAfterStop ==
    [][lifecycle' = "stopped" => sent' = EmptyBag]_vars

\* C4: no timer armed before stop() (direct-probe, relay-leg, on-behalf or
\* round-level suspicion timer) runs its handler after stop() returned; in
\* particular none emits Suspect.
C4_NoTimerHandlerAfterStop ==
    \A h \in staleRan : h[1] = "callback"

\* the invocations of pingReq(m), and the direct probes of m that timed out
Escalations(m) == {i \in DOMAIN pingReqLog : pingReqLog[i].member = m}
TimedOutProbes(m) ==
    {s \in timedOut : txn[s].kind = "ping" /\ txn[s].member = m}

\* C5: pingReq(member) has been invoked once for each direct probe of member
\* whose pingTimeout fired, and for nothing else: not for an acknowledged or
\* force-cleared probe, not again on a late or duplicate Ack; until then the
\* probe's timeout stays armed.
C5_OneEscalationPerTimedOutProbe ==
    /\ \A m \in Members : Cardinality(Escalations(m)) = Cardinality(TimedOutProbes(m))
    /\ \A i \in DOMAIN pingReqLog : pingReqLog[i].member \in Members
    \* a pending direct probe still has its timeout armed, for its member
    /\ \A s \in Pending :
          txn[s].kind = "ping" =>
              \E t \in timers : t.id = <<"ping", s>> /\ t.member = txn[s].member

\* a direct probe timed out and escalated; acks keep arriving afterwards
C5_Witness ==
    /\ \E m \in Members : Cardinality(TimedOutProbes(m)) = 1 /\ Cardinality(Escalations(m)) = 1
    /\ listeners > 0
    /\ \E s \in acked : txn[s].kind = "leg"

\* the Ack the on-behalf probe s owes its requester; its callback is waiting
\* in the nextTick queue; the on-behalf probes
Forward(s) == Msg("Ack", txn[s].reqSeq, Absent, Absent, txn[s].host, s)
Deferred(s) == \E i \in DOMAIN nextTickQueue : nextTickQueue[i].cb.seq = s
Behalfs == {s \in DOMAIN txn : txn[s].kind = "behalf"}

\* C6: for an on-behalf probe s3 started by PingReq(reqSeq) from H, the only
\* Ack ever forwarded on its account goes to H and carries reqSeq; it is
\* forwarded once when an Ack for s3 was handled while s3 was pending (and the
\* deferred callback has run), duplicates adding nothing, and never otherwise.
C6_ForwardsOneAckWithReqSeq ==
    /\ \A m \in BagToSet(relayed) : m.via \in Behalfs /\ m = Forward(m.via)
    /\ \A s \in Behalfs :
          CopiesIn(Forward(s), relayed) =
              IF s \in acked /\ ~Deferred(s) THEN 1 ELSE 0

\* the Ack for s3 came in time, then came again, and one Ack went back to H
\* with a reqSeq that differs from s3
C6_Witness ==
    \E s \in Behalfs :
        /\ s \in acked
        /\ txn[s].reqSeq # s
        /\ CopiesIn(Forward(s), relayed) = 1
        /\ listeners > 0
        /\ sent = EmptyBag

\* C6 as first stated, for a detector that is running: whenever an Ack for
\* s3 is handled before the pingTimeout of s3 fires, one Ack is forwarded to H.
C6_AsStated ==
    \A s \in Behalfs :
        (lifecycle = "started" /\ s \in heard /\ ~Deferred(s))
            => CopiesIn(Forward(s), relayed) = 1

\* C7: a step allocates only numbers above every number allocated before, so
\* the entries a step adds are exactly the numbers it allocates and a number
\* that left the tables stays out; the counter never goes back, stop() and
\* start() included.
C7_SequencesOnlyGrow ==
    [][ /\ seq' >= seq
        /\ DOMAIN seqToTimeout' \ DOMAIN seqToTimeout = seq..(seq' - 1)
        /\ DOMAIN seqToCallback' \ DOMAIN seqToCallback \subseteq seq..(seq' - 1)
        /\ DOMAIN seqToTimeout \subseteq 0..(seq - 1)
        /\ DOMAIN txn = 0..(seq - 1) ]_vars

\* after a stop() and a second start(), a new sequence is pending above one
\* that was force-cleared
C7_Witness ==
    /\ starts = 2
    /\ \E s \in DOMAIN txn, q \in Pending :
          /\ s \notin Pending /\ s \notin timedOut /\ s \notin acked
          /\ q > s

\* C8: clearSeq(s) is idempotent and total, for pending, cleared and never
\* allocated s alike: it removes the entries of s, cancels at most the timer
\* of s and touches nothing else; an Ack for s after it changes nothing.
C8_ClearSeqIdempotent ==
    \A s \in 0..(seq + 1) :
        LET c == clearSeq(State, s)
            after == onAck(c, [seq |-> s, host |-> Absent])
        IN  /\ clearSeq(c, s) = c
            /\ DOMAIN c.seqToTimeout = DOMAIN seqToTimeout \ {s}
            /\ DOMAIN c.seqToCallback = DOMAIN seqToCallback \ {s}
            /\ \A q \in DOMAIN c.seqToTimeout : c.seqToTimeout[q] = seqToTimeout[q]
            /\ \A q \in DOMAIN c.seqToCallback : c.seqToCallback[q] = seqToCallback[q]
            /\ c.timers = {t \in timers : t.id[1] = "suspect" \/ t.id[2] # s}
            /\ c = [State EXCEPT !.seqToTimeout = c.seqToTimeout,
                                 !.seqToCallback = c.seqToCallback,
                                 !.timers = c.timers]
            /\ [after EXCEPT !.heard = heard] = c

\* two entries are pending, one of them with a callback and a live suspicion
\* timer, and an earlier sequence is already gone
C8_Witness ==
    /\ Cardinality(Pending) >= 2
    /\ DOMAIN seqToCallback # {}
    /\ \E t \in timers : t.id[1] = "suspect"
    /\ DOMAIN txn \ Pending # {}

\* the step invokes pingReq and membership.random returns no relay
Skipped ==
    /\ Len(pingReqLog') = Len(pingReqLog) + 1
    /\ pingReqLog'[Len(pingReqLog')].relays = << >>

\* C9: an escalation that finds no relay changes nothing but its own probe's
\* entry: no timer is armed, no message sent, no sequence taken; and every
\* Suspect ever emitted belongs to a round that had a relay.
C9_NoRelayNoRound ==
    /\ [][Skipped => /\ seq' = seq
                     /\ sent' = EmptyBag
                     /\ timers' \subseteq timers
                     /\ DOMAIN seqToTimeout' \subseteq DOMAIN seqToTimeout
                     /\ seqToCallback' = seqToCallback
                     /\ rounds' = rounds
                     /\ emitted' = emitted]_vars
    /\ [](\A e \in BagToSet(emitted) :
             e.round \in DOMAIN rounds /\ Len(rounds[e.round].relays) >= 1)

\* an escalation found no relay and left no timer behind
C9_Witness ==
    /\ pingReqLog # << >>
    /\ pingReqLog[Len(pingReqLog)].relays = << >>
    /\ timers = {}
    /\ \E s \in timedOut : txn[s].kind = "ping"

\* the step invokes pingReq; the PingReq messages escalation e must send
Escalated == Len(pingReqLog') = Len(pingReqLog) + 1

PingReqsOf(e) ==
    {Msg("PingReq", e.first + i - 1, Local, e.member, e.relays[i], -1) :
        i \in 1..Len(e.relays)}

\* C10: an escalation creates one relay transaction per relay peer that
\* membership.random(pingReqGroupSize) returned, min(pingReqGroupSize,
\* available) of them: consecutive fresh sequences, each pending with a
\* callback, each sent as one PingReq to its relay with destination = member.
C10_OneLegPerRelay ==
    [][Escalated =>
         LET e == pingReqLog'[Len(pingReqLog')]
             n == Len(e.relays)
         IN  /\ n = Min(pingReqGroupSize, Cardinality(e.available))
             /\ seq' = seq + n
             /\ sent' = SetToBag(PingReqsOf(e))
             /\ DOMAIN seqToTimeout' \ DOMAIN seqToTimeout = seq..(seq + n - 1)
             /\ DOMAIN seqToCallback' \ DOMAIN seqToCallback = seq..(seq + n - 1)
             /\ \A s \in seq..(seq + n - 1) :
                   txn'[s].kind = "leg" /\ txn'[s].member = e.member]_vars

\* pingReqGroupSize = 3, one relay available: one relay transaction
C10_Witness ==
    /\ pingReqGroupSize = 3
    /\ pingReqLog # << >>
    /\ LET e == pingReqLog[Len(pingReqLog)]
       IN  /\ Cardinality(e.available) = 1
           /\ Len(e.relays) = 1
           /\ Cardinality(LegsOf(e.first)) = 1
           /\ BagCardinality(sent) = 1

\* the step runs ping(): the callback of setImmediate or of setInterval
PingStep ==
    \/ immediates' = immediates - 1
    \/ \E h \in DOMAIN intervals :
          intervals[h] = 0 /\ h \in DOMAIN intervals' /\ intervals'[h] = interval

\* C11: pingMember with an absent member is a no-op, in every reachable
\* state: no message, no timer, no entry, the counter as it was; and a run of
\* ping() that sends nothing leaves all of these as they were.
C11_AbsentMemberNoOp ==
    /\ [](LET after == pingMember(Begin, Absent)
          IN  /\ after.sent = EmptyBag
              /\ after.timers = timers
              /\ after.seqToTimeout = seqToTimeout
              /\ after.seqToCallback = seqToCallback
              /\ after.seq = seq
              /\ after = Begin)
    /\ [][(PingStep /\ sent' = EmptyBag) =>
             /\ seq' = seq
             /\ timers' = timers
             /\ seqToTimeout' = seqToTimeout
             /\ seqToCallback' = seqToCallback
             /\ txn' = txn]_vars

\* start() was called twice and both setImmediate callbacks have run, one
\* with a member and one with none: one probe is pending, its timer untouched
C11_Witness ==
    /\ starts = 2
    /\ immediates = 0
    /\ seq = 1
    /\ Pending = {0}
    /\ \E t \in timers : t.id = <<"ping", 0>> /\ t.left = pingTimeout
    /\ sent = EmptyBag

\* the timers that are armed under the handle h
LiveTimers(h) == {t \in timers : t.id = h}

\* C12: every sequence with a completion callback has a timer entry; every
\* timer entry is the handle of one timer that is armed, was armed for that
\* sequence and has not fired; no two sequences share a timer.
C12_PendingHasOneLiveTimer ==
    /\ DOMAIN seqToCallback \subseteq DOMAIN seqToTimeout
    /\ \A s \in DOMAIN seqToTimeout :
          /\ Cardinality(LiveTimers(seqToTimeout[s])) = 1
          /\ seqToTimeout[s][2] = s
          /\ seqToTimeout[s][1] = txn[s].kind
          /\ s \notin timedOut
    /\ \A s, q \in DOMAIN seqToTimeout :
          s # q => seqToTimeout[s] # seqToTimeout[q]
    /\ \A s \in DOMAIN seqToCallback : seqToCallback[s].seq = s

\* two sequences are pending, each with its callback and its timer, while an
\* earlier sequence has timed out and left the tables
C12_Witness ==
    /\ Cardinality(Pending) >= 2
    /\ DOMAIN seqToCallback = Pending
    /\ \E s \in timedOut : s \notin Pending
    /\ lifecycle = "started"

\* the step runs the success callback of a relay leg of round r
LegCallbackRuns(r) ==
    /\ nextTickQueue # << >>
    /\ Len(nextTickQueue') = Len(nextTickQueue) - 1
    /\ Head(nextTickQueue).cb.name = "pingReqAckReceiveCallback"
    /\ Head(nextTickQueue).cb.timeout = <<"suspect", r>>

\* C13: the suspicion timer of a round, once gone, is never armed again, so
\* it is cancelled at most once; the success callback of a leg takes away
\* that timer if it is still armed and nothing else, and when the timer is
\* already gone (a later acknowledged leg) it changes no state at all.
C13_SuspicionCancelledOnce ==
    [][\A r \in DOMAIN rounds :
         /\ ~Armed(r) => ~Armed(r)'
         /\ LegCallbackRuns(r) =>
               /\ timers' = timers \ LiveTimers(<<"suspect", r>>)
               /\ nextTickQueue' = Tail(nextTickQueue)
               /\ UNCHANGED <<seq, tickHandle, seqToTimeout, seqToCallback,
                              intervals, immediates, listeners, relayed,
                              emitted, acked, timedOut, ackedInTime>>
               /\ sent' = EmptyBag]_vars

\* both legs of a round were acknowledged while pending and both success
\* callbacks have run: the timer is gone and nothing was suspected
C13_Witness ==
    \E r \in DOMAIN rounds :
        /\ Cardinality(LegsOf(r)) = 2
        /\ LegsOf(r) \subseteq acked
        /\ nextTickQueue = << >>
        /\ ~Armed(r)
        /\ Suspects(r) = 0

\* C14: every Ping given to net.sendMessage, by pingMember or by onPingReq,
\* carries the local identity in its host field.
C14_PingCarriesSender ==
    \A m \in BagToSet(sent) : m.type = "Ping" => m.host = Local

\* the times the callback of s is waiting in the nextTick queue, and the
\* times it has been or is about to be invoked
Queued(s) ==
    Cardinality({i \in DOMAIN nextTickQueue : nextTickQueue[i].cb.seq = s})
Invocations(s) == CopiesIn(s, invoked) + Queued(s)

\* C15: the completion callback of a sequence is deferred and invoked at
\* most once, whatever duplicate Acks, the timer and stop() do; only an Ack
\* handled while the sequence was pending invokes it, so none handled after
\* its timer fired does; a direct probe has no callback to invoke.
C15_CallbackAtMostOnce ==
    /\ \A s \in DOMAIN txn :
          /\ Invocations(s) <= 1
          /\ s \in timedOut => Invocations(s) = 0
          /\ Invocations(s) = 1 => s \in acked
          /\ txn[s].kind = "ping" => Invocations(s) = 0
          /\ s \in DOMAIN seqToCallback => Invocations(s) = 0
    /\ \A s \in BagToSet(invoked) : s \in DOMAIN txn

\* the callback of one sequence has run once, the timer of another sequence
\* with a callback has fired, and Acks can still be delivered
C15_Witness ==
    /\ \E s \in DOMAIN txn : CopiesIn(s, invoked) = 1
    /\ \E q \in timedOut : txn[q].kind # "ping"
    /\ listeners > 0
    /\ nextTickQueue = << >>

\* the direct probes whose pingTimeout fires in the step; the suspicion
\* timers the step arms
FiringProbes == {s \in timedOut' \ timedOut : txn[s].kind = "ping"}
NewSuspicions ==
    {t \in timers' : t.id[1] = "suspect" /\ LiveTimers(t.id) = {}}

\* C16: a direct probe acknowledged while pending has its timer cancelled
\* and its entry removed and its timeout never fires; pingReq is invoked, a
\* PingReq sent and a suspicion timer armed only in the step in which the
\* pingTimeout of an unacknowledged direct probe of that member fires.
C16_AckedProbeNeverEscalates ==
    /\ [](\A s \in acked :
             txn[s].kind = "ping" =>
                 /\ s \notin Pending
                 /\ LiveTimers(<<"ping", s>>) = {}
                 /\ s \notin timedOut)
    /\ [][/\ Escalated =>
               \E s \in FiringProbes :
                   /\ FiringProbes = {s}
                   /\ s \notin acked'
                   /\ txn[s].member = pingReqLog'[Len(pingReqLog')].member
          /\ (\E m \in BagToSet(sent') : m.type = "PingReq") => Escalated
          /\ NewSuspicions # {} => Escalated]_vars

\* the direct probe of sequence 0 was acknowledged while pending, more than
\* pingTimeout has gone by since, and nothing was escalated
C16_Witness ==
    /\ starts = 1
    /\ seq = 1
    /\ 0 \in acked
    /\ txn[0].kind = "ping"
    /\ \E h \in DOMAIN intervals : intervals[h] < interval - pingTimeout
    /\ timers = {}
    /\ pingReqLog = << >>

\* the reply onPing owes to Ping(s) from host; the step handles a Ping
Reply(s, host) == Msg("Ack", s, Local, Absent, host, -1)
PingHandled == \E m \in BagToSet(sent') : m.type = "Ack" /\ m.via = -1

\* C17: onPing(Ping(seq), H) gives net.sendMessage one Ack with the same
\* seq and the local identity, addressed to H, and changes nothing else, in
\* every reachable state; a step that handles an inbound Ping sends that Ack
\* once per registration of the listener and leaves the counter, the timer
\* table, the callback table and the timers as they were.
C17_PingAnsweredWithOneAck ==
    /\ [](\A s \in ReqSeqs, host \in Requesters :
             onPing(Begin, [seq |-> s, host |-> host], host) =
                 [Begin EXCEPT !.sent = SetToBag({Reply(s, host)})])
    /\ [][PingHandled =>
             /\ \E s \in ReqSeqs, host \in Requesters :
                   /\ BagToSet(sent') = {Reply(s, host)}
                   /\ CopiesIn(Reply(s, host), sent') = listeners
             /\ UNCHANGED <<seq, seqToTimeout, seqToCallback, timers,
                            nextTickQueue, immediates, intervals, relayed,
                            emitted>>]_vars

\* a Ping was just handled by a detector started once, with a probe
\* pending: one Ack with the Ping's seq went back, the entry is still there
C17_Witness ==
    /\ starts = 1
    /\ sent = SetToBag({Reply(7, "m1")})
    /\ Pending # {}
    /\ seq # 7

\* C18: while the event loop keeps taking turns, no sequence stays pending for
\* ever: the entry of every direct probe, relay leg and on-behalf probe is
\* removed in the end, by an Ack, by its own timer or by stop(), also when
\* no Ack ever arrives.
C18_EntriesEventuallyDestroyed ==
    \A s \in 0..(MaxSeq - 1) : []<>(s \notin Pending)

\* a direct probe, a relay leg and an on-behalf probe have all left the
\* tables, none of them acknowledged
C18_Witness ==
    /\ Pending = {}
    /\ seqToCallback = << >>
    /\ acked = {}
    /\ {txn[s].kind : s \in timedOut} = {"ping", "leg", "behalf"}

\* the direct probes of m whose pingTimeout fired with no Ack handled before
UnansweredProbes(m) == {s \in TimedOutProbes(m) : s \notin acked}

\* C19: every Suspect(member) emitted belongs to a round that was opened
\* for that member after a direct probe of it timed out unacknowledged, and
\* that sent at least one PingReq, all of them with destination = member.
C19_SuspectFollowsFailedProbe ==
    \A e \in BagToSet(emitted) :
        /\ e.member \in Members
        /\ e.round \in DOMAIN rounds
        /\ rounds[e.round].member = e.member
        /\ \E s \in UnansweredProbes(e.member) : s < e.round
        /\ LegsOf(e.round) # {}
        /\ \A q \in LegsOf(e.round) : txn[q].member = e.member

\* one member is suspected; the other was probed too, answered in time and
\* is not suspected
C19_Witness ==
    \E m \in Members, n \in Members :
        /\ m # n
        /\ \E e \in BagToSet(emitted) : e.member = m
        /\ \E s \in acked : txn[s].kind = "ping" /\ txn[s].member = n
        /\ TimedOutProbes(n) = {}
        /\ \A e \in BagToSet(emitted) : e.member # n

\* what the detector holds for round r: its suspicion timer, the timers of
\* its legs, the entries of its legs in the two tables
RoundState(r) ==
    <<LiveTimers(<<"suspect", r>>),
      {t \in timers : t.id[1] = "leg" /\ t.id[2] \in LegsOf(r)},
      [s \in LegsOf(r) \cap DOMAIN seqToTimeout |-> seqToTimeout[s]],
      [s \in LegsOf(r) \cap DOMAIN seqToCallback |-> seqToCallback[s]]>>

\* the step handles an Ack for a pending leg of round r
LegAcked(r) == \E s \in acked' \ acked : s \in LegsOf(r)

\* C20: handling an Ack for a leg of round r, and running that leg's success
\* callback, leave every other round as it was: its suspicion timer (armed
\* or not, and the time it has left), its legs' timers and its legs'
\* entries; of all timers the Ack cancels only the leg's own and the
\* callback only the suspicion timer of r.
C20_RoundsIndependent ==
    [][\A r \in DOMAIN rounds :
         /\ (LegAcked(r) \/ LegCallbackRuns(r)) =>
               \A q \in DOMAIN rounds \ {r} : RoundState(q)' = RoundState(q)
         /\ LegAcked(r) =>
               \E s \in LegsOf(r) : timers' = timers \ LiveTimers(<<"leg", s>>)
         /\ LegCallbackRuns(r) =>
               timers' = timers \ LiveTimers(<<"suspect", r>>)]_vars

\* two rounds were in flight together: the later one was acknowledged and its
\* suspicion timer cancelled while the earlier one is still armed, its leg
\* still pending
C20_Witness ==
    \E r \in DOMAIN rounds, q \in DOMAIN rounds :
        /\ q < r
        /\ r \in ackedInTime
        /\ ~Armed(r)
        /\ nextTickQueue = << >>
        /\ Armed(q)
        /\ LegsOf(q) # {}
        /\ LegsOf(q) \subseteq Pending
        /\ LegsOf(q) \subseteq DOMAIN seqToCallback

====
